---- MODULE Spec2Model ----
(***************************************************************************)
(* A model of the finboard dashboard core:                                 *)
(*   - the widget collection store        (store/dashboardStore.js)        *)
(*   - field discovery and path resolving (lib/dataExtractor.js)           *)
(*   - the fetch lifecycle of the hook    (lib/useWidgetData.js, the same  *)
(*     code shape as StockChartWidget.js)                                  *)
(*   - the fetch lifecycle of the card    (widgets/FinanceCardWidget.js)   *)
(*   - the chart adapter processChartData (lib/dataExtractor.js)           *)
(*   - the add paths of the interface     (AddWidgetModal, AddWidgetPanel) *)
(*   - a dashboard of two widgets         (components/DashboardLayout.js)  *)
(* Each part has its own specification over the same variables; the        *)
(* variables of the other parts stay at their idle value.                  *)
(***************************************************************************)
EXTENDS Integers, Sequences, FiniteSets, Bags, TLC

VARIABLES
    widgets,      \* store: state.widgets, a sequence of widget records
    persisted,    \* store: the record under 'finboard-dashboard-storage' (<<>> = nothing stored)
    now,          \* store: the last reading of Date.now()
    storeLog,     \* store: the last two operations, newest first (history)
    root,         \* fields: the JSON document under discovery
    discovered,   \* fields: the result of extractFields(root), <<>> before the call
    probe,        \* fields: the last getFieldValue call, [path, result] or NoProbe
    chart,        \* fields: the last processChartData call, [fields, result] or NoChart
    shaped,       \* fields: the last processTableData / processCardData call, or NoShape
    h,            \* hook: one instance of useWidgetData / StockChartWidget
    c,            \* card: one instance of FinanceCardWidget
    pg,           \* table: one instance of usePagination with the data handed to it
    modal         \* modal: the form and the test requests of AddWidgetModal

vars == <<widgets, persisted, now, storeLog, root, discovered, probe, chart, shaped, h, c,
         pg, modal>>

storeVars == <<widgets, persisted, now, storeLog>>
fieldVars == <<root, discovered, probe, chart, shaped>>
uiVars == <<pg, modal>>

(***************************************************************************)
(* Bounds                                                                  *)
(***************************************************************************)
MaxWidgets == 3      \* longest collection explored
MaxNow == 3          \* last clock reading explored

(***************************************************************************)
(* Sequence helpers                                                        *)
(***************************************************************************)
RemoveAt(s, i) == SubSeq(s, 1, i - 1) \o SubSeq(s, i + 1, Len(s))

InsertAt(s, i, e) == SubSeq(s, 1, i - 1) \o <<e>> \o SubSeq(s, i, Len(s))

\* Array.prototype.findIndex, 1-based; 0 stands for JavaScript's -1
FindIndex(s, id) ==
    IF \E i \in 1..Len(s) : s[i].id = id
    THEN CHOOSE i \in 1..Len(s) : s[i].id = id /\ \A j \in 1..(i - 1) : s[j].id # id
    ELSE 0

\* Array.prototype.filter(w => w.id !== id)
RECURSIVE FilterOut(_, _)
FilterOut(s, id) ==
    IF s = <<>> THEN <<>>
    ELSE IF Head(s).id = id THEN FilterOut(Tail(s), id)
         ELSE <<Head(s)>> \o FilterOut(Tail(s), id)

\* {...a, ...b}: the fields of b override those of a
Merge(a, b) ==
    [k \in (DOMAIN a) \cup (DOMAIN b) |-> IF k \in DOMAIN b THEN b[k] ELSE a[k]]

(***************************************************************************)
(* Widget collection store: store/dashboardStore.js                        *)
(***************************************************************************)
\* the configurations handed to addWidget (an id in the argument is possible)
NewConfigs == {[title |-> "t1"], [title |-> "t1", id |-> "1"]}

\* the partial configurations handed to updateWidgetConfig
PartialConfigs == {[title |-> "t2"], [id |-> "1"]}

IdArgs == {ToString(n) : n \in 1..MaxNow} \cup {"none"}

NoOp == [op |-> "init"]

\* mutant: a write that misses the newest entry
PersistAllButLast(ws) ==
    <<[widgets |-> IF ws = <<>> THEN ws ELSE SubSeq(ws, 1, Len(ws) - 1)]>>

\* the persist middleware writes the state after every set()
Persist(ws) == <<[widgets |-> ws]>>

\* mutant: the spread in the other order, an id of the argument survives
AddWidgetKeepingArgId(ws, newWidget, t) ==
    Append(ws, Merge([id |-> ToString(t)], newWidget))

\* the collection that addWidget builds when Date.now() reads t
AddWidgetResult(ws, newWidget, t) ==
    Append(ws, Merge(newWidget, [id |-> ToString(t)]))

RemoveWidgetResult(ws, id) == FilterOut(ws, id)

\* mutant: the two entries are exchanged instead of the source being moved
MoveWidgetSwap(ws, dragId, hoverId) ==
    LET dragIndex == FindIndex(ws, dragId)
        hoverIndex == FindIndex(ws, hoverId)
    IN  IF dragIndex = 0 \/ hoverIndex = 0 THEN ws
        ELSE [i \in 1..Len(ws) |->
                 IF i = dragIndex THEN ws[hoverIndex]
                 ELSE IF i = hoverIndex THEN ws[dragIndex] ELSE ws[i]]

\* mutant: no test for an absent id; splice(-1, ...) then works on the last entry
MoveWidgetUnguarded(ws, dragId, hoverId) ==
    LET dragIndex == IF FindIndex(ws, dragId) = 0 THEN Len(ws) ELSE FindIndex(ws, dragId)
        hoverIndex == IF FindIndex(ws, hoverId) = 0 THEN Len(ws) ELSE FindIndex(ws, hoverId)
    IN  IF ws = <<>> THEN ws
        ELSE InsertAt(RemoveAt(ws, dragIndex), hoverIndex, ws[dragIndex])

MoveWidgetResult(ws, dragId, hoverId) ==
    LET dragIndex == FindIndex(ws, dragId)
        hoverIndex == FindIndex(ws, hoverId)
    IN  IF dragIndex = 0 \/ hoverIndex = 0 THEN ws
        ELSE InsertAt(RemoveAt(ws, dragIndex), hoverIndex, ws[dragIndex])

UpdateWidgetConfigResult(ws, id, newConfig) ==
    [i \in 1..Len(ws) |-> IF ws[i].id = id THEN Merge(ws[i], newConfig) ELSE ws[i]]

\* the history keeps the operation before the last one only when the last two
\* are an add followed by a remove
Log(entry) ==
    <<entry, IF entry.op = "remove" /\ storeLog[1].op = "add" THEN storeLog[1] ELSE NoOp>>

\* what a call of addWidget evaluates to: its body is a block without a return
AddWidgetReturn == "undefined"

addWidget(newWidget, t) ==
    /\ UNCHANGED <<fieldVars, h, c, uiVars>>
    /\ Len(widgets) < MaxWidgets
    /\ t >= now
    /\ now' = t
    /\ widgets' = AddWidgetResult(widgets, newWidget, t)
    /\ persisted' = Persist(widgets')
    /\ storeLog' = Log([op |-> "add", arg |-> newWidget, before |-> widgets,
                        assigned |-> ToString(t), returned |-> AddWidgetReturn])

removeWidget(id) ==
    /\ UNCHANGED <<fieldVars, h, c, uiVars>>
    /\ widgets' = RemoveWidgetResult(widgets, id)
    /\ persisted' = Persist(widgets')
    /\ storeLog' = Log([op |-> "remove", id |-> id, before |-> widgets])
    /\ UNCHANGED now

moveWidget(dragId, hoverId) ==
    /\ UNCHANGED <<fieldVars, h, c, uiVars>>
    /\ widgets' = MoveWidgetResult(widgets, dragId, hoverId)
    /\ persisted' = Persist(widgets')
    /\ storeLog' = Log([op |-> "move", dragId |-> dragId, hoverId |-> hoverId,
                        before |-> widgets])
    /\ UNCHANGED now

updateWidgetConfig(id, newConfig) ==
    /\ UNCHANGED <<fieldVars, h, c, uiVars>>
    /\ widgets' = UpdateWidgetConfigResult(widgets, id, newConfig)
    /\ persisted' = Persist(widgets')
    /\ storeLog' = Log([op |-> "update", id |-> id, arg |-> newConfig,
                        before |-> widgets])
    /\ UNCHANGED now

\* a page reload: the store is created again and rehydrated from storage
Rehydrate ==
    /\ UNCHANGED <<fieldVars, h, c, uiVars>>
    /\ widgets' = IF persisted = <<>> THEN <<>> ELSE persisted[1].widgets
    /\ storeLog' = Log([op |-> "rehydrate", before |-> widgets])
    /\ UNCHANGED <<persisted, now>>

(***************************************************************************)
(* The add paths of the user interface: AddWidgetModal (handleAddWidget)   *)
(* and AddWidgetPanel                                                      *)
(***************************************************************************)
\* the widget handleAddWidget builds from the form; the endpoint is absolute
\* (finalUrl = apiUrl) and cached is the response of a test of that endpoint
NewWidget(displayMode, widgetName, apiUrl, selectedFields, cached) ==
    [type |-> displayMode,
     title |-> widgetName,
     apiUrl |-> apiUrl,
     refreshInterval |-> 30,
     fields |-> selectedFields,
     apiKey |-> "",
     initialData |-> cached]

\* the Add button of the modal: an incomplete form is answered with an alert
handleAddWidget(displayMode, widgetName, apiUrl, selectedFields, cached, t) ==
    IF widgetName = "" \/ apiUrl = "" \/ Len(selectedFields) = 0
    THEN UNCHANGED vars
    ELSE addWidget(NewWidget(displayMode, widgetName, apiUrl, selectedFields, cached), t)

availableWidgets ==
    <<[type |-> "card", title |-> "Market Gainers Card", symbol |-> "NIFTY"],
      [type |-> "chart", title |-> "Line Chart: Reliance", symbol |-> "RELIANCE.NS",
       interval |-> "Daily"],
      [type |-> "table", title |-> "New Watchlist Table"],
      [type |-> "chart", title |-> "Line Chart: Infosys", symbol |-> "INFY.NS",
       interval |-> "Weekly"]>>

\* a button of the panel: onClick={() => addWidget(widget)}
AddWidgetPanel(index, t) == addWidget(availableWidgets[index], t)

\* the delete button of a widget, confirmed
handleDelete(widgetId) == removeWidget(widgetId)

(***************************************************************************)
(* JSON values.  A string is a sequence of one-character strings, so that  *)
(* replace, split and join are computed and not assumed.                   *)
(***************************************************************************)
Undefined == [t |-> "undefined"]
Null == [t |-> "null"]
Num(n) == [t |-> "num", n |-> n]
Str(s) == [t |-> "str", s |-> s]
Arr(a) == [t |-> "arr", a |-> a]
\* a mapping is the sequence of its entries in Object.entries order
Obj(o) == [t |-> "obj", o |-> o]
Entry(k, v) == [k |-> k, v |-> v]

Dot == "."
Digits == <<"0", "1", "2">>

KeyA == <<"a">>
KeyB == <<"b">>
KeyData == <<"d", "a", "t", "a">>
KeyDotted == <<"a", ".", "b">>
Keys == {KeyA, KeyB, KeyData, KeyDotted}

\* `${prefix}.${key}`
Join(prefix, key) == prefix \o <<Dot>> \o key

\* String.prototype.split('.'): always at least one segment
RECURSIVE Split(_)
Split(s) ==
    IF \E i \in 1..Len(s) : s[i] = Dot
    THEN LET i == CHOOSE j \in 1..Len(s) : s[j] = Dot /\ \A m \in 1..(j - 1) : s[m] # Dot
         IN  <<SubSeq(s, 1, i - 1)>> \o Split(SubSeq(s, i + 1, Len(s)))
    ELSE <<s>>

\* path.replace(/^data\./, '')
StripDataPrefix(path) ==
    IF Len(path) >= 5 /\ SubSeq(path, 1, 5) = KeyData \o <<Dot>>
    THEN SubSeq(path, 6, Len(path))
    ELSE path

\* JavaScript truthiness of a value
Truthy(v) ==
    CASE v.t = "undefined" -> FALSE
      [] v.t = "null" -> FALSE
      [] v.t = "num" -> v.n # 0
      [] v.t = "str" -> v.s # <<>>
      [] OTHER -> TRUE

\* the array index a property name denotes, 0 when it is no index
IndexOf(key) ==
    IF Len(key) = 1 /\ \E i \in 1..Len(Digits) : Digits[i] = key[1]
    THEN CHOOSE i \in 1..Len(Digits) : Digits[i] = key[1]
    ELSE 0

\* v[key] for a value that is neither null nor undefined; the inherited
\* properties (length, constructor, ...) are outside the key alphabet
Prop(v, key) ==
    CASE v.t = "obj" ->
            IF \E i \in 1..Len(v.o) : v.o[i].k = key
            THEN v.o[CHOOSE i \in 1..Len(v.o) : v.o[i].k = key].v
            ELSE Undefined
      [] v.t = "arr" ->
            IF IndexOf(key) \in 1..Len(v.a) THEN v.a[IndexOf(key)] ELSE Undefined
      [] v.t = "str" ->
            IF IndexOf(key) \in 1..Len(v.s) THEN Str(<<v.s[IndexOf(key)]>>) ELSE Undefined
      [] OTHER -> Undefined

\* the outcome of an evaluation that throws (a TypeError)
Raised == [t |-> "raised"]

\* v[key] as JavaScript evaluates it: a property of null or undefined cannot be read
Access(v, key) ==
    IF v.t = "raised" \/ v.t \in {"null", "undefined"} THEN Raised ELSE Prop(v, key)

\* mutant: the reducer without its test of acc
StepUnguarded(acc, part) == Access(acc, part)

\* the reducer (acc, part) => (acc && acc[part] !== undefined) ? acc[part] : undefined
Step(acc, part) ==
    IF acc.t = "raised" THEN Raised
    ELSE IF Truthy(acc) THEN Access(acc, part) ELSE Undefined

RECURSIVE Reduce(_, _)
Reduce(parts, acc) ==
    IF parts = <<>> THEN acc ELSE Reduce(Tail(parts), Step(acc, Head(parts)))

getFieldValue(obj, path) ==
    IF ~Truthy(obj) \/ path = <<>> THEN Undefined
    ELSE LET cleanPath == StripDataPrefix(path)
         IN  IF Access(obj, cleanPath).t # "undefined" THEN Access(obj, cleanPath)
             ELSE Reduce(Split(cleanPath), obj)

IsPlainObject(v) == v.t = "obj"

\* typeof v === 'object': mappings, sequences and null
TypeofObject(v) == v.t \in {"obj", "arr", "null"}

RECURSIVE extractFields(_, _, _, _)
RECURSIVE ExtractEntries(_, _, _, _)
RECURSIVE ExtractEntriesSameDepth(_, _, _, _)

\* mutant: the loop descends without counting the level
ExtractEntriesSameDepth(entries, prefix, depth, maxDepth) ==
    IF entries = <<>> THEN <<>>
    ELSE LET key == Head(entries).k
             value == Head(entries).v
             newPrefix == IF prefix # <<>> THEN Join(prefix, key) ELSE key
             here ==
                 IF value.t \in {"arr", "obj"}
                 THEN extractFields(value, newPrefix, depth, maxDepth)
                 ELSE <<newPrefix>>
         IN  here \o ExtractEntriesSameDepth(Tail(entries), prefix, depth, maxDepth)

\* the for-of loop over Object.entries(obj)
ExtractEntries(entries, prefix, depth, maxDepth) ==
    IF entries = <<>> THEN <<>>
    ELSE LET key == Head(entries).k
             value == Head(entries).v
             newPrefix == IF prefix # <<>> THEN Join(prefix, key) ELSE key
             here ==
                 IF value.t = "arr"
                 THEN <<newPrefix>> \o
                      (IF Len(value.a) > 0 /\ TypeofObject(value.a[1]) /\ value.a[1].t # "arr"
                       THEN extractFields(value.a[1], newPrefix, depth + 1, maxDepth)
                       ELSE <<>>)
                 ELSE IF value.t = "obj"
                      THEN extractFields(value, newPrefix, depth + 1, maxDepth)
                      ELSE <<newPrefix>>
         IN  here \o ExtractEntries(Tail(entries), prefix, depth, maxDepth)

extractFields(obj, prefix, depth, maxDepth) ==
    IF depth > maxDepth \/ obj.t \in {"null", "undefined"} THEN <<>>
    ELSE IF obj.t = "arr"
         THEN IF Len(obj.a) > 0
              THEN IF IsPlainObject(obj.a[1])
                   THEN extractFields(obj.a[1], prefix, depth + 1, maxDepth)
                   ELSE <<prefix>>
              ELSE <<prefix>>
         ELSE IF obj.t = "obj"
              THEN ExtractEntries(obj.o, prefix, depth, maxDepth)
              ELSE <<>>

DefaultMaxDepth == 10

(***************************************************************************)
(* The documents explored: every value of nesting depth <= 3 built from    *)
(* the leaves below, one-element sequences and one-entry mappings, and     *)
(* the two-entry mappings over the leaves.                                 *)
(***************************************************************************)
Leaves == {Null, Num(0), Num(1), Str(<<"a">>), Arr(<<>>), Obj(<<>>)}

Wrap(S) ==
    {Arr(<<v>>) : v \in S} \cup {Obj(<<Entry(k, v)>>) : k \in Keys, v \in S}

Pairs(S) ==
    {Obj(<<Entry(k1, v1), Entry(k2, v2)>>) :
        k1 \in {KeyA, KeyData}, k2 \in {KeyB, KeyDotted}, v1 \in S, v2 \in S}

Level1 == Leaves \cup Wrap(Leaves) \cup Pairs(Leaves)
Level2 == Level1 \cup Wrap(Level1)
\* mappings in which a key with a separator and a chain of keys spell one path
Twins ==
    {Obj(<<Entry(KeyDotted, Num(0)), Entry(KeyA, Obj(<<Entry(KeyB, Num(1))>>))>>),
     Obj(<<Entry(KeyA, Arr(<<Obj(<<Entry(KeyB, Num(1))>>)>>)), Entry(KeyDotted, Null)>>)}

Roots == Level2 \cup Wrap(Wrap(Wrap(Leaves))) \cup Twins

NoProbe == [path |-> <<>>, result |-> Undefined, done |-> FALSE, offered |-> FALSE]

\* discover: the add-widget modal calls extractFields(data) on a test response
Discover ==
    /\ UNCHANGED <<storeVars, h, c, uiVars>>
    /\ discovered = <<>>
    /\ probe = NoProbe
    /\ discovered' = <<extractFields(root, <<>>, 0, DefaultMaxDepth)>>
    /\ UNCHANGED <<root, probe, chart, shaped>>

\* the largest maxDepth handed to extractFields explicitly
MaxDepthArg == 2

\* extractFields(root, '', 0, maxDepth) with an explicit bound, which is kept
\* with the result
DiscoverUpTo(maxDepth) ==
    /\ UNCHANGED <<storeVars, h, c, uiVars>>
    /\ discovered = <<>>
    /\ probe = NoProbe
    /\ discovered' = <<extractFields(root, <<>>, 0, maxDepth), maxDepth>>
    /\ UNCHANGED <<root, probe, chart, shaped>>

\* the paths offered for selection: the result of the call with the default bound
Offered == IF Len(discovered) # 1 THEN <<>> ELSE discovered[1]

\* resolve: a widget resolves one of the offered paths against the document
Resolve(i) ==
    /\ UNCHANGED <<storeVars, h, c, uiVars>>
    /\ i \in 1..Len(Offered)
    /\ probe' = [path |-> Offered[i],
                 result |-> getFieldValue(root, Offered[i]),
                 done |-> TRUE,
                 offered |-> TRUE]
    /\ UNCHANGED <<root, discovered, chart, shaped>>

\* the path strings handed to getFieldValue besides the offered ones: the empty
\* path, plain and dotted keys, a 'data.' prefix, indices, a lone separator
Paths ==
    {<<>>, KeyA, KeyB, KeyData, KeyDotted, <<"0">>, <<Dot>>,
     Join(KeyData, KeyA), Join(KeyA, <<"0">>), Join(KeyB, KeyA), Join(KeyDotted, KeyA)}

\* a widget resolves a path of its configuration against the document
Probe(path) ==
    /\ UNCHANGED <<storeVars, h, c, uiVars>>
    /\ probe' = [path |-> path,
                 result |-> getFieldValue(root, path),
                 done |-> TRUE,
                 offered |-> FALSE]
    /\ UNCHANGED <<root, discovered, chart, shaped>>

(***************************************************************************)
(* processChartData (lib/dataExtractor.js)                                 *)
(***************************************************************************)
DecimalDigits == <<"0", "1", "2", "3", "4", "5", "6", "7", "8", "9">>

\* the decimal numeral of a natural number, as a template literal prints it
RECURSIVE NumberToString(_)
NumberToString(n) ==
    IF n < 10 THEN <<DecimalDigits[n + 1]>>
    ELSE NumberToString(n \div 10) \o <<DecimalDigits[(n % 10) + 1]>>

IsDigit(ch) == \E d \in 1..10 : DecimalDigits[d] = ch

DigitValue(ch) == (CHOOSE d \in 1..10 : DecimalDigits[d] = ch) - 1

\* the number a sequence of digits denotes
RECURSIVE NumeralValue(_)
NumeralValue(s) ==
    IF s = <<>> THEN 0
    ELSE 10 * NumeralValue(SubSeq(s, 1, Len(s) - 1)) + DigitValue(s[Len(s)])

\* the longest prefix of s made of digits
RECURSIVE DigitPrefix(_)
DigitPrefix(s) ==
    IF s # <<>> /\ IsDigit(Head(s)) THEN <<Head(s)>> \o DigitPrefix(Tail(s)) ELSE <<>>

NaN == [t |-> "nan"]

\* String(v) up to the first character that cannot be part of a numeral: a
\* sequence prints as its elements joined by commas, null as the empty string
\* inside a sequence and as "null" alone, a mapping as "[object Object]"
RECURSIVE NumeralPart(_)
NumeralPart(v) ==
    CASE v.t = "num" -> NumberToString(v.n)
      [] v.t = "str" -> DigitPrefix(v.s)
      [] v.t = "arr" -> IF v.a = <<>> THEN <<>> ELSE NumeralPart(v.a[1])
      [] OTHER -> <<>>

\* parseFloat(v), on the naturals and the strings of digits and letters
parseFloat(v) ==
    IF NumeralPart(v) = <<>> THEN NaN ELSE Num(NumeralValue(NumeralPart(v)))

KeyValues == <<"v", "a", "l", "u", "e", "s">>
Key0 == <<"0">>
Key1 == <<"1">>

\* points kept by the chart
ChartLimit == 50

\* mutant: the first n elements
SliceFirst(s, n) == SubSeq(s, 1, n)

\* s.slice(-n), for n <= s.length
SliceLast(s, n) == SubSeq(s, Len(s) - n + 1, Len(s))

\* the failure processChartData throws itself
ChartDataError == [t |-> "error", message |-> "Could not find chart data. Check field selection."]

\* lines 92-104: the series inside the first item of a sequence of mappings;
\* reading a property of a first item that is null raises
UnwrapFirstItem(targetData) ==
    IF targetData.t = "arr" /\ Len(targetData.a) > 0
    THEN LET firstItem == targetData.a[1]
         IN  IF TypeofObject(firstItem) /\ firstItem.t # "arr"
             THEN IF Access(firstItem, KeyValues).t = "raised" THEN Raised
                  ELSE IF Access(firstItem, KeyValues).t = "arr"
                       THEN Access(firstItem, KeyValues)
                       ELSE IF Access(firstItem, KeyData).t = "arr"
                            THEN Access(firstItem, KeyData)
                            ELSE targetData
             ELSE targetData
    ELSE targetData

\* a.map(f) where f may raise: the mapped sequence, or Raised
MapOrRaise(mapped) ==
    IF \E i \in 1..Len(mapped) : mapped[i].t = "raised" THEN Raised ELSE Arr(mapped)

\* the result for a target that is a sequence (lines 112-131)
ChartOf(series) ==
    LET dated == Len(series) > 0 /\ series[1].t = "arr"
        labels ==
            IF dated
            THEN MapOrRaise([i \in 1..Len(series) |-> Access(series[i], Key0)])
            ELSE Arr([i \in 1..Len(series) |-> Str(<<"P", "t", " ">> \o NumberToString(i))])
        dataPoints ==
            IF dated
            THEN MapOrRaise([i \in 1..Len(series) |->
                                IF Access(series[i], Key1).t = "raised" THEN Raised
                                ELSE parseFloat(Access(series[i], Key1))])
            ELSE Arr([i \in 1..Len(series) |-> parseFloat(series[i])])
    IN  IF labels.t = "raised" \/ dataPoints.t = "raised" THEN Raised
        ELSE IF Len(labels.a) > ChartLimit
             THEN [t |-> "chart",
                   labels |-> SliceLast(labels.a, ChartLimit),
                   points |-> SliceLast(dataPoints.a, ChartLimit)]
             ELSE [t |-> "chart", labels |-> labels.a, points |-> dataPoints.a]

\* processChartData(rawData, fields, title): the labels and the data of the
\* dataset, ChartDataError, or Raised for a TypeError
processChartData(rawData, fields) ==
    LET targetPath == IF Len(fields) > 0 THEN fields[1] ELSE <<>>
        targetData == UnwrapFirstItem(getFieldValue(rawData, targetPath))
    IN  IF targetData.t = "raised" THEN Raised
        ELSE IF targetData.t # "arr" THEN ChartDataError
             ELSE ChartOf(targetData.a)

NoChart == [fields |-> <<>>, result |-> Undefined, done |-> FALSE]

\* a chart widget adapts a payload with its configured fields
ProcessChart(fields) ==
    /\ UNCHANGED <<storeVars, h, c, uiVars>>
    /\ ~chart.done
    /\ chart' = [fields |-> fields, result |-> processChartData(root, fields), done |-> TRUE]
    /\ UNCHANGED <<root, discovered, probe, shaped>>

\* longest series explored
MaxSeries == 80

\* n numbers / n [date, value] pairs
Flat(n) == Arr([i \in 1..n |-> Num(i)])
Dated(n) == Arr([i \in 1..n |-> Arr(<<Str(<<"d">> \o NumberToString(i)), Num(i)>>)])

\* what a series can hold besides numbers and pairs
Items == {Null, Num(7), Str(<<"4", "2">>), Str(<<"a">>), Arr(<<Str(<<"d">>), Str(<<"9">>)>>)}

ShortSeries == {Arr(<<>>)} \cup {Arr(<<x>>) : x \in Items} \cup {Arr(<<x, y>>) : x \in Items, y \in Items}

SeriesValues == {Flat(n) : n \in 0..MaxSeries} \cup {Dated(n) : n \in 0..MaxSeries} \cup ShortSeries

\* what the first field path can resolve to: a series, a series inside the
\* first item of a sequence, or no sequence at all
TargetValues ==
    SeriesValues
        \cup {Arr(<<Obj(<<Entry(k, s)>>)>>) : k \in {KeyValues, KeyData, KeyB}, s \in ShortSeries \cup {Flat(3), Num(1)}}
        \cup {Null, Num(1), Str(<<"a">>), Obj(<<>>)}

ChartPayloads == {Null} \cup {Obj(<<Entry(KeyA, v)>>) : v \in TargetValues}

ChartFields == {<<>>, <<KeyA>>, <<KeyB>>, <<KeyA, KeyB>>}

(***************************************************************************)
(* processTableData and processCardData (lib/dataExtractor.js)             *)
(***************************************************************************)
\* mutant: a loop without the break, the last sequence found is kept
RECURSIVE TableScanToEnd(_, _, _)
TableScanToEnd(fetchedData, fields, tableData) ==
    IF fields = <<>> THEN tableData
    ELSE LET value == getFieldValue(fetchedData, Head(fields))
         IN  TableScanToEnd(fetchedData, Tail(fields),
                            IF value.t = "arr" THEN value ELSE tableData)

\* the for-of loop over fields, tableData being [] when it starts; it breaks at
\* the first value that is a sequence
RECURSIVE TableScan(_, _, _)
TableScan(fetchedData, fields, tableData) ==
    IF fields = <<>> THEN tableData
    ELSE LET value == getFieldValue(fetchedData, Head(fields))
         IN  IF value.t = "arr" THEN value
             ELSE TableScan(fetchedData, Tail(fields), tableData)

processTableData(fetchedData, fields) ==
    LET tableData == TableScan(fetchedData, fields, Arr(<<>>))
    IN  IF tableData.t # "arr" \/ Len(tableData.a) = 0 THEN Arr(<<>>) ELSE tableData

\* mutant: an assignment that keeps the value a name already has
KeepProperty(o, name, value) ==
    IF \E i \in 1..Len(o) : o[i].k = name THEN o ELSE Append(o, Entry(name, value))

\* cardData[fieldName] = value: a new name is added after the others, a name
\* already there keeps its place and takes the value
SetProperty(o, name, value) ==
    IF \E i \in 1..Len(o) : o[i].k = name
    THEN [i \in 1..Len(o) |-> IF o[i].k = name THEN Entry(name, value) ELSE o[i]]
    ELSE Append(o, Entry(name, value))

\* fieldPath.split('.').pop()
FieldName(fieldPath) == Split(fieldPath)[Len(Split(fieldPath))]

\* selectedFields.forEach(...), cardData being o when it starts
RECURSIVE CardScan(_, _, _)
CardScan(rawData, selectedFields, o) ==
    IF selectedFields = <<>> THEN o
    ELSE CardScan(rawData, Tail(selectedFields),
                  SetProperty(o, FieldName(Head(selectedFields)),
                              getFieldValue(rawData, Head(selectedFields))))

processCardData(rawData, selectedFields) == Obj(CardScan(rawData, selectedFields, <<>>))

NoShape == [fn |-> "none", fields |-> <<>>, result |-> Undefined]

\* a table widget adapts a payload with its configured fields
ProcessTable(fields) ==
    /\ UNCHANGED <<storeVars, h, c, uiVars>>
    /\ shaped = NoShape
    /\ shaped' = [fn |-> "table", fields |-> fields, result |-> processTableData(root, fields)]
    /\ UNCHANGED <<root, discovered, probe, chart>>

\* a card adapts a payload with its configured fields
ProcessCard(fields) ==
    /\ UNCHANGED <<storeVars, h, c, uiVars>>
    /\ shaped = NoShape
    /\ shaped' = [fn |-> "card", fields |-> fields, result |-> processCardData(root, fields)]
    /\ UNCHANGED <<root, discovered, probe, chart>>

\* longest list of field paths handed to the two adapters
MaxFields == 2

ShapeValues ==
    {Arr(<<>>), Arr(<<Num(1)>>), Arr(<<Obj(<<Entry(KeyA, Num(1))>>), Num(0)>>),
     Num(1), Null, Obj(<<Entry(KeyB, Arr(<<Num(0)>>))>>)}

ShapePayloads ==
    {Null} \cup {Obj(<<Entry(KeyA, v1), Entry(KeyB, v2)>>) : v1 \in ShapeValues, v2 \in ShapeValues}

ShapePaths == {KeyA, KeyB, Join(KeyA, KeyB), Join(KeyB, KeyB), Join(KeyData, KeyA)}

ShapeFields == UNION {[1..n -> ShapePaths] : n \in 0..MaxFields}

(***************************************************************************)
(* usePagination (lib/usePagination.js) as StockTableWidget uses it        *)
(***************************************************************************)
\* usePagination(data, 7)
itemsPerPage == 7

\* most rows of the data handed to the hook
MaxRows == 15

Rows(n) == Arr([i \in 1..n |-> Num(i)])

\* the values data takes: null before the first result, then sequences of rows
PageData == {Null} \cup {Rows(n) : n \in 0..MaxRows}

\* data?.length || 0
TotalItems(data) == IF data.t = "arr" THEN Len(data.a) ELSE 0

\* Math.ceil(n / d) for n >= 0 and d > 0
Ceil(n, d) == (n + d - 1) \div d

Smaller(a, b) == IF a <= b THEN a ELSE b
Larger(a, b) == IF a >= b THEN a ELSE b

\* Array.prototype.slice(start, end): a negative index counts from the end
Slice(a, start, end) ==
    LET from == IF start < 0 THEN Larger(Len(a) + start, 0) ELSE Smaller(start, Len(a))
        to == IF end < 0 THEN Larger(Len(a) + end, 0) ELSE Smaller(end, Len(a))
    IN  SubSeq(a, from + 1, to)

totalPages(s) == Ceil(TotalItems(s.data), itemsPerPage)
startIndex(s) == (s.currentPage - 1) * itemsPerPage
endIndex(s) == startIndex(s) + itemsPerPage

\* data?.slice(startIndex, endIndex) || []
paginatedData(s) ==
    IF s.data.t = "arr" THEN Slice(s.data.a, startIndex(s), endIndex(s)) ELSE <<>>

\* Math.min(prev + 1, totalPages)
NextPage(s) == Smaller(s.currentPage + 1, totalPages(s))

PageNew(data) == [part |-> "table", data |-> data, currentPage |-> 1, last |-> "mount"]

goToNextPage ==
    /\ UNCHANGED <<storeVars, fieldVars, h, c, modal>>
    /\ pg' = [pg EXCEPT !.currentPage = NextPage(pg), !.last = "next"]

goToPrevPage ==
    /\ UNCHANGED <<storeVars, fieldVars, h, c, modal>>
    /\ pg' = [pg EXCEPT !.currentPage = Larger(pg.currentPage - 1, 1), !.last = "prev"]

goToPage(pageNumber) ==
    /\ UNCHANGED <<storeVars, fieldVars, h, c, modal>>
    /\ pg' = [pg EXCEPT !.currentPage = Larger(1, Smaller(pageNumber, totalPages(pg))),
                        !.last = "page"]

resetPage ==
    /\ UNCHANGED <<storeVars, fieldVars, h, c, modal>>
    /\ pg' = [pg EXCEPT !.currentPage = 1, !.last = "reset"]

\* the widget renders with other data (a refresh brought another result):
\* currentPage is state of the hook and keeps its value
PageSetData(data) ==
    /\ UNCHANGED <<storeVars, fieldVars, h, c, modal>>
    /\ data # pg.data
    /\ pg' = [pg EXCEPT !.data = data, !.last = "data"]

(***************************************************************************)
(* Idle values of the parts a specification does not exercise              *)
(***************************************************************************)
IdleStore ==
    /\ widgets = <<>>
    /\ persisted = <<>>
    /\ now = 1
    /\ storeLog = <<NoOp, NoOp>>

IdleFields ==
    /\ root = Null
    /\ discovered = <<>>
    /\ probe = NoProbe
    /\ chart = NoChart
    /\ shaped = NoShape

IdleUi ==
    /\ pg = [part |-> "idle"]
    /\ modal = [part |-> "idle"]

(***************************************************************************)
(* Fetch lifecycle, shared vocabulary                                      *)
(***************************************************************************)
MaxInFlight == 2     \* requests of one instance in flight at a time
MaxClock == 1        \* last wall-clock reading explored

None == "none"       \* JavaScript null in a state cell

Urls == {"u1", "u2"}
ApiKeys == {"k1", "k2"}

\* response bodies; the adapter raises on "bad"
Bodies == {"p1", "p2", "bad"}

\* what a request can end in when it is not aborted: a 2xx response with a
\* JSON body, a non-2xx response, or a transport failure
Outcomes ==
    {[kind |-> "ok", body |-> b] : b \in Bodies}
        \cup {[kind |-> "status", status |-> n] : n \in {429, 401, 403, 500}}
        \cup {[kind |-> "network"]}

\* the rejection of an aborted fetch
AbortError == [kind |-> "abort"]

\* the outcomes the transport may deliver for request r: an aborted request is
\* rejected with AbortError by a transport that honours the signal; one that
\* ignores the signal delivers the response all the same
Deliverable(r) == IF r.aborted THEN Outcomes \cup {AbortError} ELSE Outcomes

\* the readings Date can give after reading clock
Readings(clock) == {t \in {clock, clock + 1} : t <= MaxClock}

\* A request in flight.  kind: the function that sent it; aborted: the signal it
\* carries was aborted.  History: by, "refetch" when a manual refetch sent it;
\* sup, whether a newer request of the instance was sent while this one was
\* pending ("no"), and by a manual refetch ("refetch") or not ("fetch").
Request(kind, by) == [kind |-> kind, aborted |-> FALSE, by |-> by, sup |-> "no"]

Supersede(r, by) ==
    [r EXCEPT !.sup = IF by = "refetch" \/ @ = "refetch" THEN "refetch" ELSE "fetch"]

\* the requests in flight after one more is sent
Send(reqs, kind, by) ==
    BagOfAll(LAMBDA r : Supersede(r, by), reqs) (+) SetToBag({Request(kind, by)})

\* the requests in flight after r has completed
Gone(reqs, r) == reqs (-) SetToBag({r})

\* mutant: a callback that drops the first entry of the collection
onRefreshRemoving(ws) == IF ws = <<>> THEN ws ELSE Tail(ws)

\* if (onRefresh) onRefresh(): the collection after the call.  DashboardLayout
\* hands its widgets onEdit and onDelete and no onRefresh, so nothing is called
onRefresh(ws) == ws

(***************************************************************************)
(* useWidgetData (lib/useWidgetData.js); StockChartWidget.js repeats the   *)
(* same lifecycle with processChartData as processData                     *)
(***************************************************************************)

\* the value the adapter makes of a raw payload it accepts
Adapted(raw) == "processed " \o raw

\* processData / processChartData applied to a raw payload: a value, or a raised error
processData(raw) ==
    IF raw = "bad"
    THEN [ok |-> FALSE, message |-> "Could not find chart data. Check field selection."]
    ELSE [ok |-> TRUE, value |-> Adapted(raw), message |-> None]

\* the message of the error the hook's fetchData throws or receives for an outcome
HookFailureMessage(out) ==
    CASE out.kind = "status" /\ out.status = 429 -> "Rate Limit Exceeded"
      [] out.kind = "status" /\ out.status \in {401, 403} -> "Invalid API key or unauthorized"
      [] out.kind = "status" -> "API Error: " \o ToString(out.status)
      [] out.kind = "network" -> "Failed to fetch"
      [] OTHER -> None

\* the message of the error StockChartWidget's fetchData throws or receives
ChartFailureMessage(out) ==
    CASE out.kind = "status" /\ out.status = 429 -> "Rate Limit Exceeded"
      [] out.kind = "status" -> "API Error: " \o ToString(out.status)
      [] out.kind = "network" -> "Failed to fetch"
      [] OTHER -> None

\* the message by the component that instance s is
FailureMessage(s, out) ==
    IF s.widget = "chart" THEN ChartFailureMessage(out) ELSE HookFailureMessage(out)

\* useState / useRef initial values, before the first effect has run
HookNew(apiUrl, apiKey, initialData) ==
    [part |-> "hook",
     widget |-> "hook",       \* hook (useWidgetData) or chart (StockChartWidget)
     apiUrl |-> apiUrl, apiKey |-> apiKey, initialData |-> initialData,
     data |-> None, loading |-> TRUE, error |-> None, lastUpdated |-> 0,
     hasFetchedOnce |-> FALSE,
     cleanup |-> FALSE,       \* the last effect run returned a cleanup function
     mounted |-> "new",       \* new (rendered, effect not yet run) / yes / no
     reqs |-> EmptyBag,       \* requests in flight
     sentTo |-> None,         \* history: the URL of the last request sent
     seedUses |-> 0,          \* history: times the effect processed the seed (2 = more than once)
     clock |-> 1]

\* the observable tuple {data, loading, error, lastUpdated}
HookView(s) ==
    [data |-> s.data, loading |-> s.loading, error |-> s.error,
     lastUpdated |-> s.lastUpdated]

\* abortControllerRef.current.abort(): the ref holds the controller of the newest
\* request, which is marked aborted if it is still in flight
HookAbort(reqs) ==
    BagOfAll(LAMBDA r : IF r.sup = "no" THEN [r EXCEPT !.aborted = TRUE] ELSE r, reqs)

\* fetchData()
HookFetchData(s, by) ==
    IF s.apiUrl = ""
    THEN [s EXCEPT !.error = "No API URL provided", !.loading = FALSE]
    ELSE [s EXCEPT !.reqs = Send(HookAbort(s.reqs), "fetchData", by),
                   !.loading = TRUE,
                   !.error = None,
                   !.sentTo = s.apiUrl]

\* an effect that takes no notice of the seed
HookEffectWithoutSeed(s, t) ==
    IF s.hasFetchedOnce THEN [s EXCEPT !.cleanup = FALSE]
    ELSE [HookFetchData(s, "effect") EXCEPT !.cleanup = TRUE, !.clock = t]

\* the body of the effect, Date reading t
HookEffect(s, t) ==
    IF s.hasFetchedOnce THEN [s EXCEPT !.cleanup = FALSE]
    ELSE IF s.initialData # None
         THEN LET processed == processData(s.initialData)
                  used == [s EXCEPT !.seedUses = IF @ = 0 THEN 1 ELSE 2, !.cleanup = TRUE]
              IN  IF processed.ok
                  THEN [used EXCEPT !.data = processed.value,
                                    !.lastUpdated = t,
                                    !.clock = t,
                                    !.loading = FALSE,
                                    !.hasFetchedOnce = TRUE]
                  ELSE [used EXCEPT !.error = processed.message,
                                    !.loading = FALSE]
         ELSE IF s.apiUrl # ""
              THEN [HookFetchData(s, "effect") EXCEPT !.cleanup = TRUE]
              ELSE [s EXCEPT !.cleanup = TRUE]

\* the cleanup the effect returned, if it returned one
HookCleanup(s) ==
    IF s.cleanup THEN [s EXCEPT !.reqs = HookAbort(s.reqs)] ELSE s

\* mutant: a continuation that stores the raw payload when the adapter raises
HookSettleSwallowing(s, out, t) ==
    IF out.kind = "abort" THEN [s EXCEPT !.loading = FALSE]
    ELSE IF out.kind = "ok"
         THEN [s EXCEPT !.data = IF processData(out.body).ok
                                 THEN processData(out.body).value ELSE out.body,
                        !.error = None,
                        !.lastUpdated = t,
                        !.clock = t,
                        !.hasFetchedOnce = TRUE,
                        !.loading = FALSE]
         ELSE [s EXCEPT !.error = FailureMessage(s, out), !.loading = FALSE]

\* the continuation of fetchData after its awaits, for outcome out, Date reading t
HookSettle(s, out, t) ==
    IF out.kind = "abort" THEN [s EXCEPT !.loading = FALSE]
    ELSE IF out.kind = "ok"
         THEN LET processed == processData(out.body)
              IN  IF processed.ok
                  THEN [s EXCEPT !.data = processed.value,
                                 !.error = None,
                                 !.lastUpdated = t,
                                 !.clock = t,
                                 !.hasFetchedOnce = TRUE,
                                 !.loading = FALSE]
                  ELSE [s EXCEPT !.error = processed.message, !.loading = FALSE]
         ELSE [s EXCEPT !.error = FailureMessage(s, out), !.loading = FALSE]

\* React drops the state updates of a component that is no longer mounted;
\* the mutation of the ref still happens
HookSettleUnmounted(s, out) ==
    IF out.kind = "ok" /\ processData(out.body).ok
    THEN [s EXCEPT !.hasFetchedOnce = TRUE]
    ELSE s

\* first commit: the effect runs
HookMount(t) ==
    /\ UNCHANGED <<storeVars, fieldVars, c, uiVars>>
    /\ h.part = "hook"
    /\ h.mounted = "new"
    /\ t \in Readings(h.clock)
    /\ h' = HookEffect([h EXCEPT !.mounted = "yes"], t)

\* refetch(): setError(null); fetchData().  The hook hands refetch to its
\* caller; the chart calls its copy from the refresh button, disabled while
\* loading is shown, and from the Retry button of the error view.  The handlers
\* of the chart and the table that call it end with the onRefresh callback
refetch ==
    /\ widgets' = onRefresh(widgets)
    /\ UNCHANGED <<persisted, now, storeLog, fieldVars, c, uiVars>>
    /\ h.part = "hook"
    /\ h.mounted = "yes"
    /\ h.widget = "chart" => (~h.loading \/ h.error # None)
    /\ LET s == HookFetchData([h EXCEPT !.error = None], "refetch")
       IN  BagCardinality(s.reqs) <= MaxInFlight /\ h' = s

\* the widget is re-rendered with another endpoint: apiUrl is a dependency of
\* the effect, so the previous cleanup and then the effect run
HookChangeUrl(u, t) ==
    /\ UNCHANGED <<storeVars, fieldVars, c, uiVars>>
    /\ h.part = "hook"
    /\ h.mounted = "yes"
    /\ u # h.apiUrl
    /\ t \in Readings(h.clock)
    /\ LET s == HookEffect([HookCleanup(h) EXCEPT !.apiUrl = u], t)
       IN  BagCardinality(s.reqs) <= MaxInFlight /\ h' = s

\* the widget is re-rendered with another auth key: FINAL_API_KEY is recomputed,
\* apiKey is no dependency of the effect
HookChangeKey(k) ==
    /\ UNCHANGED <<storeVars, fieldVars, c, uiVars>>
    /\ h.part = "hook"
    /\ h.mounted = "yes"
    /\ k # h.apiKey
    /\ h' = [h EXCEPT !.apiKey = k]

\* unmount: the registered cleanup runs
HookUnmount ==
    /\ UNCHANGED <<storeVars, fieldVars, c, uiVars>>
    /\ h.part = "hook"
    /\ h.mounted = "yes"
    /\ h' = [HookCleanup(h) EXCEPT !.mounted = "no"]

\* request r completes with outcome out
HookComplete(r, out, t) ==
    /\ UNCHANGED <<storeVars, fieldVars, c, uiVars>>
    /\ h.part = "hook"
    /\ BagIn(r, h.reqs)
    /\ out \in Deliverable(r)
    /\ t \in Readings(h.clock)
    /\ (out.kind # "ok" \/ ~processData(out.body).ok \/ h.mounted = "no") => t = h.clock
    /\ LET s == [h EXCEPT !.reqs = Gone(h.reqs, r)]
       IN  h' = IF h.mounted = "yes" THEN HookSettle(s, out, t)
                ELSE HookSettleUnmounted(s, out)

(***************************************************************************)
(* FinanceCardWidget (components/widgets/FinanceCardWidget.js)             *)
(***************************************************************************)
maxRetries == 3

\* the message of the error the effect's fetchData throws or receives
CardFailureMessage(out) ==
    CASE out.kind = "status" /\ out.status = 429 -> "Rate limit exceeded. Try again later."
      [] out.kind = "status" /\ out.status \in {401, 403} -> "Invalid API key or unauthorized."
      [] out.kind = "status" -> "API Error: " \o ToString(out.status)
      [] out.kind = "network" -> "Failed to fetch"
      [] OTHER -> None

\* the message of the error fetchOneOff throws or receives
OneOffFailureMessage(out) ==
    CASE out.kind = "status" -> "HTTP " \o ToString(out.status)
      [] out.kind = "network" -> "Failed to fetch"
      [] OTHER -> None

\* the dependency array [apiUrl, FINAL_API_KEY, title, retryCount] of a render
\* (the title is not changed in this model)
CardDeps(s) == <<s.apiUrl, s.apiKey, s.retryCount>>

\* useState / useRef initial values of the first render, Date reading 1
CardNew(apiUrl, apiKey, initialData, refreshInterval) ==
    [part |-> "card",
     apiUrl |-> apiUrl, apiKey |-> apiKey, initialData |-> initialData,
     refreshInterval |-> refreshInterval,
     data |-> initialData,
     loading |-> (initialData = None),
     error |-> None,
     lastUpdated |-> IF initialData # None THEN 1 ELSE 0,
     retryCount |-> 0,
     isMounted |-> TRUE,
     hasFetchedOnce |-> (initialData # None),
     \* what the closures of the last effect run captured (of data, whether it is null)
     eff |-> [apiUrl |-> apiUrl, retryCount |-> 0, hasData |-> initialData # None],
     deps |-> <<>>,           \* the dependencies of the last effect run
     interval |-> FALSE,      \* intervalId of the last effect run is set
     timers |-> 0,            \* intervals set by setInterval and not cleared
     mounted |-> "new",
     reqs |-> EmptyBag,
     sentTo |-> None,
     clock |-> 1]

CardView(s) ==
    [data |-> s.data, loading |-> s.loading, error |-> s.error,
     lastUpdated |-> s.lastUpdated]

\* controller.abort() in the cleanup of an effect run.  Every effect run makes
\* its own controller and its cleanup aborts it before the next run makes
\* another, so the requests of fetchData that are not yet aborted all carry the
\* signal of the last run; fetchOneOff passes no signal
AbortCtrl(reqs) ==
    BagOfAll(LAMBDA r : IF r.kind = "fetchData" THEN [r EXCEPT !.aborted = TRUE] ELSE r, reqs)

\* fetchData() of the last effect run
CardFetchData(s) ==
    IF s.eff.apiUrl = ""
    THEN [s EXCEPT !.error = "No API URL provided", !.loading = FALSE]
    ELSE IF s.hasFetchedOnce /\ s.initialData # None
         THEN [s EXCEPT !.hasFetchedOnce = FALSE]
         ELSE IF s.eff.retryCount >= maxRetries
              THEN [s EXCEPT !.error = "Max retries reached. Please refresh manually.",
                             !.loading = FALSE]
              ELSE [s EXCEPT !.loading = IF ~s.eff.hasData THEN TRUE ELSE @,
                             !.reqs = Send(@, "fetchData", "effect"),
                             !.sentTo = s.eff.apiUrl]

\* the body of the effect, run after a render with state s
CardEffect(s) ==
    LET started == [s EXCEPT !.isMounted = TRUE,
                             !.retryCount = 0,
                             !.eff = [apiUrl |-> s.apiUrl, retryCount |-> s.retryCount,
                                      hasData |-> s.data # None],
                             !.deps = CardDeps(s)]
        fetched == IF s.initialData = None THEN CardFetchData(started) ELSE started
        set == s.refreshInterval > 0 /\ s.retryCount < maxRetries
    IN  [fetched EXCEPT !.interval = set,
                        !.timers = IF set THEN @ + 1 ELSE @]

\* mutant: a cleanup that leaves the interval running
CardCleanupKeepingTimer(s) ==
    [s EXCEPT !.isMounted = FALSE,
              !.reqs = AbortCtrl(s.reqs),
              !.interval = FALSE]

\* the cleanup of the last effect run: if (intervalId) clearInterval(intervalId)
CardCleanup(s) ==
    [s EXCEPT !.isMounted = FALSE,
              !.reqs = AbortCtrl(s.reqs),
              !.interval = FALSE,
              !.timers = IF s.interval THEN @ - 1 ELSE @]

\* after a render: when a dependency differs from the last effect run, the
\* cleanup (none before the first run) and then the effect run
CardCommit(s) ==
    IF s.mounted = "yes" /\ CardDeps(s) # s.deps
    THEN CardEffect(IF s.deps = <<>> THEN s ELSE CardCleanup(s))
    ELSE s

\* the renders that follow a batch of state updates: the effect sets retryCount,
\* itself a dependency, so a second render and commit can follow the first
CardRender(s) == CardCommit(CardCommit(s))

\* the continuation of the effect's fetchData after its awaits
CardSettle(s, out, t) ==
    IF out.kind = "abort" \/ ~s.isMounted THEN s
    ELSE IF out.kind = "ok"
         THEN [s EXCEPT !.data = out.body,
                        !.error = None,
                        !.retryCount = 0,
                        !.lastUpdated = t,
                        !.clock = t,
                        !.loading = FALSE,
                        !.hasFetchedOnce = TRUE]
         ELSE [s EXCEPT !.error = CardFailureMessage(out),
                        !.retryCount = @ + 1,
                        !.loading = FALSE]

\* the continuation of fetchOneOff after its awaits
OneOffSettle(s, out, t) ==
    IF ~s.isMounted THEN s
    ELSE IF out.kind = "ok"
         THEN [s EXCEPT !.data = out.body,
                        !.lastUpdated = t,
                        !.clock = t,
                        !.error = None,
                        !.loading = FALSE]
         ELSE [s EXCEPT !.error = OneOffFailureMessage(out), !.loading = FALSE]

\* fetchOneOff(): the request of a manual refresh, sent without a signal
fetchOneOff(s) ==
    [s EXCEPT !.reqs = Send(@, "fetchOneOff", "refetch"), !.sentTo = s.apiUrl]

\* first commit: the effect runs
CardMount ==
    /\ UNCHANGED <<storeVars, fieldVars, h, uiVars>>
    /\ c.part = "card"
    /\ c.mounted = "new"
    /\ c' = CardRender([c EXCEPT !.mounted = "yes"])

\* the interval timer fires: fetchData of the effect run that set it
CardTimerTick ==
    /\ UNCHANGED <<storeVars, fieldVars, h, uiVars>>
    /\ c.part = "card"
    /\ c.mounted = "yes"
    /\ c.timers > 0
    /\ LET s == CardRender(CardFetchData(c))
       IN  BagCardinality(s.reqs) <= MaxInFlight /\ c' = s

\* the refresh button, which is disabled while loading is shown; the handler
\* ends with the onRefresh callback
handleManualRefresh ==
    /\ widgets' = onRefresh(widgets)
    /\ UNCHANGED <<persisted, now, storeLog, fieldVars, h, uiVars>>
    /\ c.part = "card"
    /\ c.mounted = "yes"
    /\ ~c.loading
    /\ LET s == CardRender(fetchOneOff([c EXCEPT !.retryCount = 0,
                                                !.loading = TRUE,
                                                !.error = None]))
       IN  BagCardinality(s.reqs) <= MaxInFlight /\ c' = s

\* the widget is re-rendered with another endpoint
CardChangeUrl(u) ==
    /\ UNCHANGED <<storeVars, fieldVars, h, uiVars>>
    /\ c.part = "card"
    /\ c.mounted = "yes"
    /\ u # c.apiUrl
    /\ LET s == CardRender([c EXCEPT !.apiUrl = u])
       IN  BagCardinality(s.reqs) <= MaxInFlight /\ c' = s

\* the widget is re-rendered with another auth key
CardChangeKey(k) ==
    /\ UNCHANGED <<storeVars, fieldVars, h, uiVars>>
    /\ c.part = "card"
    /\ c.mounted = "yes"
    /\ k # c.apiKey
    /\ LET s == CardRender([c EXCEPT !.apiKey = k])
       IN  BagCardinality(s.reqs) <= MaxInFlight /\ c' = s

\* unmount: the cleanup of the last effect run
CardUnmount ==
    /\ UNCHANGED <<storeVars, fieldVars, h, uiVars>>
    /\ c.part = "card"
    /\ c.mounted = "yes"
    /\ c' = [CardCleanup(c) EXCEPT !.mounted = "no"]

\* request r completes with outcome out
CardComplete(r, out, t) ==
    /\ UNCHANGED <<storeVars, fieldVars, h, uiVars>>
    /\ c.part = "card"
    /\ BagIn(r, c.reqs)
    /\ out \in Deliverable(r)
    /\ t \in Readings(c.clock)
    /\ (out.kind # "ok" \/ ~c.isMounted) => t = c.clock
    /\ LET gone == [c EXCEPT !.reqs = Gone(c.reqs, r)]
           settled == IF r.kind = "fetchOneOff" THEN OneOffSettle(gone, out, t)
                      ELSE CardSettle(gone, out, t)
           s == CardRender(settled)
       IN  BagCardinality(s.reqs) <= MaxInFlight /\ c' = s

(***************************************************************************)
(* AddWidgetModal: the endpoint field, the test requests and the Add button *)
(***************************************************************************)
\* most test requests in flight
MaxTests == 2

\* most widgets created through the modal
MaxCreated == 1

\* process.env.NEXT_PUBLIC_API_BASE_URL
BASE_URL == "base"

\* what the user types into the endpoint field: nothing, a path that starts
\* with '/', or a full URL
RelativeUrls == {"/a"}
EndpointInputs == {"", "u1", BASE_URL \o "/a"} \cup RelativeUrls

\* apiUrl.startsWith('/') ? `${BASE_URL}${apiUrl}` : apiUrl
FullUrl(apiUrl) == IF apiUrl \in RelativeUrls THEN BASE_URL \o apiUrl ELSE apiUrl

\* the JSON body the server returns for a URL at some moment; the body names the
\* URL it was fetched from
TestBodies == {"p1", "p2"}
Response(url, b) == b \o " of " \o url

\* what a test request can end in: a 2xx response with a JSON body, a non-2xx
\* response, a transport failure
TestOutcomes ==
    {[kind |-> "ok", b |-> b] : b \in TestBodies}
        \cup {[kind |-> "status", status |-> 500], [kind |-> "network"]}

\* the state of the form after resetForm(), tests being the requests in flight
ModalForm(tests) ==
    [part |-> "modal",
     apiUrl |-> "",
     apiStatus |-> None,
     availableFields |-> <<>>,
     selectedFields |-> <<>>,
     cachedApiResponse |-> None,
     testedApiUrl |-> "",
     tests |-> tests]

\* the user edits the endpoint field
setApiUrl(u) ==
    /\ UNCHANGED <<storeVars, fieldVars, h, c, pg>>
    /\ u # modal.apiUrl
    /\ modal' = [modal EXCEPT !.apiUrl = u]

\* testApiConnection() up to its await: the URL is fixed when the request is sent
testApiConnection ==
    /\ UNCHANGED <<storeVars, fieldVars, h, c, pg>>
    /\ IF modal.apiUrl = ""
       THEN modal' = [modal EXCEPT !.apiStatus = "Please enter an API Endpoint"]
       ELSE /\ BagCardinality(modal.tests) < MaxTests
            /\ modal' = [modal EXCEPT
                             !.apiStatus = "Testing connection...",
                             !.tests = @ (+) SetToBag({[urlToFetch |-> FullUrl(modal.apiUrl)]})]

\* testApiConnection() after its awaits, for the test request and its outcome
TestSettle(s, test, out) ==
    IF out.kind = "ok"
    THEN [s EXCEPT !.cachedApiResponse = Response(test.urlToFetch, out.b),
                   !.testedApiUrl = test.urlToFetch,
                   !.availableFields = <<"a">>,
                   !.apiStatus = "API connection successful!"]
    ELSE [s EXCEPT !.cachedApiResponse = None,
                   !.testedApiUrl = "",
                   !.apiStatus = "Failed"]

\* a test request in flight completes, in any order
TestComplete(test, out) ==
    /\ UNCHANGED <<storeVars, fieldVars, h, c, pg>>
    /\ BagIn(test, modal.tests)
    /\ modal' = TestSettle([modal EXCEPT !.tests = @ (-) SetToBag({test})], test, out)

\* the user ticks or unticks a field of the list
toggleFieldSelection(fieldPath) ==
    /\ UNCHANGED <<storeVars, fieldVars, h, c, pg>>
    /\ \E i \in 1..Len(modal.availableFields) : modal.availableFields[i] = fieldPath
    /\ modal' = [modal EXCEPT !.selectedFields =
                     IF \E i \in 1..Len(@) : @[i] = fieldPath
                     THEN SelectSeq(@, LAMBDA f : f # fieldPath)
                     ELSE Append(@, fieldPath)]

\* mutant: the seed taken without comparing the tested URL
SeedUncompared(s, finalUrl) == s.cachedApiResponse

\* (cachedApiResponse && testedApiUrl === finalUrl) ? cachedApiResponse : null
Seed(s, finalUrl) ==
    IF s.cachedApiResponse # None /\ s.testedApiUrl = finalUrl
    THEN s.cachedApiResponse
    ELSE None

\* the Add button with the state of the form: the widget is added, the form is
\* reset and the modal closes; the test requests in flight are not cancelled
ModalAddWidget(t) ==
    /\ UNCHANGED <<fieldVars, h, c, pg>>
    /\ modal.apiUrl # "" /\ Len(modal.selectedFields) > 0
    /\ Len(widgets) < MaxCreated
    /\ t >= now
    /\ now' = t
    /\ LET finalUrl == FullUrl(modal.apiUrl)
           newWidget == NewWidget("card", "w", finalUrl, modal.selectedFields,
                                  Seed(modal, finalUrl))
       IN  /\ widgets' = AddWidgetResult(widgets, newWidget, t)
           /\ persisted' = Persist(widgets')
           /\ storeLog' = Log([op |-> "add", arg |-> newWidget, before |-> widgets,
                               assigned |-> ToString(t), returned |-> AddWidgetReturn])
    /\ modal' = ModalForm(modal.tests)

\* the Cancel button: resetForm() and onClose()
handleClose ==
    /\ UNCHANGED <<storeVars, fieldVars, h, c, pg>>
    /\ modal # ModalForm(modal.tests)
    /\ modal' = ModalForm(modal.tests)

IdleHook == h = [part |-> "idle"]

IdleCard == c = [part |-> "idle"]

(***************************************************************************)
(* Specification of the store                                              *)
(***************************************************************************)
InitStore ==
    /\ IdleUi
    /\ IdleStore
    /\ IdleFields
    /\ IdleHook
    /\ IdleCard

NextStore ==
    \/ \E newWidget \in NewConfigs, t \in 1..MaxNow : addWidget(newWidget, t)
    \/ \E id \in IdArgs : removeWidget(id)
    \/ \E dragId \in IdArgs, hoverId \in IdArgs : moveWidget(dragId, hoverId)
    \/ \E id \in IdArgs, newConfig \in PartialConfigs : updateWidgetConfig(id, newConfig)
    \/ Rehydrate

SpecStore == InitStore /\ [][NextStore]_vars

(***************************************************************************)
(* Specification of the add paths: the forms the modal is submitted with,  *)
(* the buttons of the panel, and deletions                                 *)
(***************************************************************************)
NextAdd ==
    \/ \E widgetName \in {"", "w"}, apiUrl \in {"", "u1"},
          selectedFields \in {<<>>, <<"a">>}, cached \in {"none", "p1"},
          t \in 1..MaxNow :
              handleAddWidget("card", widgetName, apiUrl, selectedFields, cached, t)
    \/ \E index \in {1, 3}, t \in 1..MaxNow : AddWidgetPanel(index, t)
    \/ \E i \in 1..Len(widgets) : handleDelete(widgets[i].id)

SpecAdd == InitStore /\ [][NextAdd]_vars

(***************************************************************************)
(* Specification of field discovery and resolving                          *)
(***************************************************************************)
InitFields ==
    /\ IdleUi
    /\ IdleStore
    /\ root \in Roots
    /\ discovered = <<>>
    /\ probe = NoProbe
    /\ chart = NoChart
    /\ shaped = NoShape
    /\ IdleHook
    /\ IdleCard

NextFields ==
    \/ Discover
    \/ \E i \in 1..Len(Offered) : Resolve(i)
    \/ \E path \in Paths : Probe(path)
    \/ \E maxDepth \in 0..MaxDepthArg : DiscoverUpTo(maxDepth)

SpecFields == InitFields /\ [][NextFields]_vars

(***************************************************************************)
(* Specification of the chart adapter                                      *)
(***************************************************************************)
InitChart ==
    /\ IdleUi
    /\ IdleStore
    /\ root \in ChartPayloads
    /\ discovered = <<>>
    /\ probe = NoProbe
    /\ chart = NoChart
    /\ shaped = NoShape
    /\ IdleHook
    /\ IdleCard

NextChart == \E fields \in ChartFields : ProcessChart(fields)

SpecChart == InitChart /\ [][NextChart]_vars

(***************************************************************************)
(* Specification of the table and card adapters                            *)
(***************************************************************************)
InitShape ==
    /\ IdleUi
    /\ IdleStore
    /\ root \in ShapePayloads
    /\ discovered = <<>>
    /\ probe = NoProbe
    /\ chart = NoChart
    /\ shaped = NoShape
    /\ IdleHook
    /\ IdleCard

NextShape ==
    \/ \E fields \in ShapeFields : ProcessTable(fields)
    \/ \E fields \in ShapeFields : ProcessCard(fields)

SpecShape == InitShape /\ [][NextShape]_vars

(***************************************************************************)
(* Specification of the pagination of a table                              *)
(***************************************************************************)
InitPage ==
    /\ IdleStore
    /\ IdleFields
    /\ IdleHook
    /\ IdleCard
    /\ modal = [part |-> "idle"]
    /\ pg = PageNew(Null)

NextPageOps ==
    \/ goToNextPage
    \/ goToPrevPage
    \/ \E pageNumber \in 0..(Ceil(MaxRows, itemsPerPage) + 1) : goToPage(pageNumber)
    \/ resetPage
    \/ \E data \in PageData : PageSetData(data)

SpecPage == InitPage /\ [][NextPageOps]_vars

(***************************************************************************)
(* Specification of the add-widget modal                                   *)
(***************************************************************************)
InitModal ==
    /\ IdleStore
    /\ IdleFields
    /\ IdleHook
    /\ IdleCard
    /\ pg = [part |-> "idle"]
    /\ modal = ModalForm(EmptyBag)

NextModal ==
    \/ \E u \in EndpointInputs : setApiUrl(u)
    \/ testApiConnection
    \/ \E test \in BagToSet(modal.tests), out \in TestOutcomes : TestComplete(test, out)
    \/ toggleFieldSelection("a")
    \/ ModalAddWidget(now)
    \/ handleClose

SpecModal == InitModal /\ [][NextModal]_vars

(***************************************************************************)
(* Claims about the store and the fields                                   *)
(***************************************************************************)

\* C7: every path that extractFields(root) returns resolves: getFieldValue(root, p)
\* is not undefined.
C7_DiscoverResolveRoundTrip ==
    (probe.done /\ probe.offered) => probe.result.t # "undefined"

\* C8: the ids of the entries of the collection are pairwise distinct.
C8_UniqueIds ==
    \A i, j \in 1..Len(widgets) : i # j => widgets[i].id # widgets[j].id

\* C9: add followed at once by remove of the id just assigned leaves the
\* collection as it was before the add, and the persisted record holds it.
C9_AddThenRemoveRestores ==
    (/\ storeLog[1].op = "remove"
     /\ storeLog[2].op = "add"
     /\ storeLog[1].id = storeLog[2].assigned)
    => (/\ widgets = storeLog[2].before
        /\ persisted = Persist(storeLog[2].before))

\* the last operation was reorder(source, target), both present and distinct
ReorderApplies ==
    /\ storeLog[1].op = "move"
    /\ storeLog[1].dragId # storeLog[1].hoverId
    /\ FindIndex(storeLog[1].before, storeLog[1].dragId) # 0
    /\ FindIndex(storeLog[1].before, storeLog[1].hoverId) # 0

NoOpCall ==
    LET l == storeLog[1]
    IN  \/ l.op \in {"remove", "update"} /\ FindIndex(l.before, l.id) = 0
        \/ /\ l.op = "move"
           /\ \/ FindIndex(l.before, l.dragId) = 0
              \/ FindIndex(l.before, l.hoverId) = 0
              \/ l.dragId = l.hoverId

\* C11: remove and updateConfig with an id that is not in the collection, and
\* reorder with an absent id or with two equal ids, leave the entries and their
\* order as they were.
C11_AbsentOrEqualIdsChangeNothing ==
    NoOpCall => widgets = storeLog[1].before

\* witness of C11: reorder(A, A) was applied to a collection of 3 entries that holds A
C11_Witness ==
    /\ storeLog[1].op = "move"
    /\ storeLog[1].dragId = storeLog[1].hoverId
    /\ FindIndex(storeLog[1].before, storeLog[1].dragId) = 2
    /\ Len(storeLog[1].before) = 3

C13_GetFieldValueTotal ==
    probe.done => probe.result.t # "raised"

\* witness of C13: a path that indexes past a null resolved to undefined
C13_Witness ==
    /\ probe.done
    /\ root = Obj(<<Entry(KeyA, Null)>>)
    /\ probe.path = Join(KeyA, KeyB)
    /\ probe.result = Undefined

\* C14: for every key of a mapping whose value is a mapping or a sequence,
\* extractFields returns the path of the key itself besides the sub-paths;
\* for {"a": {"b": 1}} it returns ["a", "a.b"].
C14_KeyPathWithSubPaths ==
    (Len(discovered) = 1 /\ root.t = "obj") =>
        /\ \A i \in 1..Len(root.o) :
               root.o[i].v.t \in {"obj", "arr"}
                   => \E j \in 1..Len(Offered) : Offered[j] = root.o[i].k
        /\ root = Obj(<<Entry(KeyA, Obj(<<Entry(KeyB, Num(1))>>))>>)
               => Offered = <<KeyA, Join(KeyA, KeyB)>>

\* some key of the document contains the path separator
RECURSIVE HasDottedKey(_)
HasDottedKey(v) ==
    CASE v.t = "obj" ->
            \E i \in 1..Len(v.o) :
                (\E j \in 1..Len(v.o[i].k) : v.o[i].k[j] = Dot) \/ HasDottedKey(v.o[i].v)
      [] v.t = "arr" -> \E i \in 1..Len(v.a) : HasDottedKey(v.a[i])
      [] OTHER -> FALSE

\* extractFields was called with an explicit maxDepth
BoundedDiscovery == Len(discovered) = 2

\* the paths returned have at most maxDepth + 1 segments, for the documents that
\* satisfy proviso; a call below the bound returns nothing
DepthBound(proviso) ==
    BoundedDiscovery =>
        /\ proviso => \A i \in 1..Len(discovered[1]) :
                          Len(Split(discovered[1][i])) <= discovered[2] + 1
        /\ extractFields(root, <<>>, discovered[2] + 1, discovered[2]) = <<>>

\* C15 (amended): extractFields returns (terminates), a call deeper than maxDepth
\* contributes nothing, and when no key of the document contains '.', no
\* returned path has more than maxDepth + 1 segments.
C15_DepthBoundOnPlainKeys ==
    DepthBound(~HasDottedKey(root))

\* C15 as stated: no returned path has more than maxDepth + 1 segments, whatever
\* the keys.
C15_DepthBoundOnAllKeys ==
    DepthBound(TRUE)

\* witness of C15: with maxDepth = 1 the third level of {"a": {"a": {"a": 1}}}
\* was cut off and nothing was returned
C15_Witness ==
    /\ root = Obj(<<Entry(KeyA, Obj(<<Entry(KeyA, Obj(<<Entry(KeyA, Num(1))>>))>>))>>)
    /\ discovered = <<<<>>, 1>>

(***************************************************************************)
(* Specification of the fetch lifecycles: one hook instance or one card    *)
(* instance                                                                *)
(***************************************************************************)
InFlight(s) == IF s.part = "idle" THEN {} ELSE BagToSet(s.reqs)

Deliveries == Outcomes \cup {AbortError}

InitHook ==
    /\ IdleCard
    /\ \E apiUrl \in {"", "u1"}, initialData \in {None, "p1", "bad"} :
          \* a seed is the response of a test of the widget's endpoint
          /\ initialData # None => apiUrl # ""
          /\ \E widget \in {"hook", "chart"} :
                 h = [HookNew(apiUrl, "k1", initialData) EXCEPT !.widget = widget]

NextHook ==
    \/ \E t \in 1..MaxClock : HookMount(t)
    \/ refetch
    \/ \E u \in Urls, t \in 1..MaxClock : HookChangeUrl(u, t)
    \/ \E k \in ApiKeys : HookChangeKey(k)
    \/ HookUnmount
    \/ \E r \in (IF h.part = "hook" THEN BagToSet(h.reqs) ELSE {}),
          out \in Outcomes \cup {AbortError}, t \in 1..MaxClock : HookComplete(r, out, t)

InitCard ==
    /\ IdleHook
    /\ \E apiUrl \in {"", "u1"}, initialData \in {None, "p1"}, refreshInterval \in {0, 30} :
          /\ initialData # None => apiUrl # ""
          /\ c = CardNew(apiUrl, "k1", initialData, refreshInterval)

NextCard ==
    \/ CardMount
    \/ CardTimerTick
    \/ handleManualRefresh
    \/ \E u \in Urls : CardChangeUrl(u)
    \/ \E k \in ApiKeys : CardChangeKey(k)
    \/ CardUnmount
    \/ \E r \in (IF c.part = "card" THEN BagToSet(c.reqs) ELSE {}),
          out \in Outcomes \cup {AbortError}, t \in 1..MaxClock : CardComplete(r, out, t)

InitFetch ==
    /\ IdleUi
    /\ IdleStore
    /\ IdleFields
    /\ (InitHook \/ InitCard)

NextFetch == NextHook \/ NextCard

SpecFetch == InitFetch /\ [][NextFetch]_vars

\* React runs the effect of a committed render, and every request in flight is
\* delivered: it completes, fails or is reported aborted
FetchFairness ==
    /\ WF_vars(\E t \in 1..MaxClock : HookMount(t))
    /\ WF_vars(\E r \in InFlight(h), out \in Deliveries, t \in 1..MaxClock :
                   HookComplete(r, out, t))
    /\ WF_vars(CardMount)
    /\ WF_vars(\E r \in InFlight(c), out \in Deliveries, t \in 1..MaxClock :
                   CardComplete(r, out, t))

SpecFetchFair == SpecFetch /\ FetchFairness

(***************************************************************************)
(* Specification of a dashboard: a collection of two widgets, stored, and  *)
(* the instances DashboardLayout renders for them, a table or chart and a  *)
(* card, each going through its fetch lifecycle                            *)
(***************************************************************************)
BoardWidgets ==
    AddWidgetResult(AddWidgetResult(<<>>, [title |-> "t1"], 1), [title |-> "t1"], 2)

\* the responses the endpoints of the dashboard give
BoardOutcomes == {[kind |-> "ok", body |-> "p1"], [kind |-> "network"], AbortError}

InitBoard ==
    /\ IdleUi
    /\ widgets = BoardWidgets
    /\ persisted = Persist(BoardWidgets)
    /\ now = 2
    /\ storeLog = <<[op |-> "add", arg |-> [title |-> "t1"],
                     before |-> SubSeq(BoardWidgets, 1, 1), assigned |-> "2",
                     returned |-> AddWidgetReturn], NoOp>>
    /\ IdleFields
    /\ \E widget \in {"hook", "chart"} :
           h = [HookNew("u1", "k1", None) EXCEPT !.widget = widget]
    /\ c = CardNew("u1", "k1", None, 30)

NextBoard ==
    \/ \E t \in 1..MaxClock : HookMount(t)
    \/ refetch
    \/ HookUnmount
    \/ \E r \in BagToSet(h.reqs), out \in BoardOutcomes, t \in 1..MaxClock :
          HookComplete(r, out, t)
    \/ CardMount
    \/ CardTimerTick
    \/ handleManualRefresh
    \/ CardUnmount
    \/ \E r \in BagToSet(c.reqs), out \in BoardOutcomes, t \in 1..MaxClock :
          CardComplete(r, out, t)

SpecBoard == InitBoard /\ [][NextBoard]_vars

(***************************************************************************)
(* Claims about the fetch lifecycles                                       *)
(***************************************************************************)
Sent(old, new) == BagCardinality(new.reqs) - BagCardinality(old.reqs)

\* the part of the observable state that the outcome of a fetch decides
Decided(s) == [data |-> s.data, error |-> s.error, lastUpdated |-> s.lastUpdated]

\* a delivery that a transport honouring the abort signal makes
Honoured(r, out) == r.aborted => out = AbortError

\* C1: when a refetch was invoked while an earlier fetch of the instance was
\* pending, the completion of the earlier fetch changes none of data, error and
\* lastUpdated (hook and card, the transport honouring the abort signal)
C1_EarlierFetchDiscardedAfterRefetch ==
    [][/\ \A r \in InFlight(h), out \in Deliveries, t \in 1..MaxClock :
              (HookComplete(r, out, t) /\ r.sup = "refetch" /\ Honoured(r, out))
                  => Decided(h') = Decided(h)
       /\ \A r \in InFlight(c), out \in Deliveries, t \in 1..MaxClock :
              (CardComplete(r, out, t) /\ r.sup = "refetch" /\ Honoured(r, out))
                  => Decided(c') = Decided(c)]_vars

\* C2: once a newer fetch has been sent for the instance or the instance has
\* been torn down, a response of the older fetch (a success or a failure, which
\* a transport ignoring the abort signal still delivers) leaves data, error,
\* loading and lastUpdated unchanged
C2_SupersededCompletionDiscarded ==
    [][/\ \A r \in InFlight(h), out \in Outcomes, t \in 1..MaxClock :
              (HookComplete(r, out, t) /\ (r.sup # "no" \/ h.mounted = "no"))
                  => HookView(h') = HookView(h)
       /\ \A r \in InFlight(c), out \in Outcomes, t \in 1..MaxClock :
              (CardComplete(r, out, t) /\ (r.sup # "no" \/ c.mounted = "no"))
                  => CardView(c') = CardView(c)]_vars

\* Ready with data d / Failed with message m
Ready(v, d) == v.data = d /\ v.error = None /\ ~v.loading
Failed(v, m) == v.error = m /\ ~v.loading

SeededHook == h.part = "hook" /\ h.initialData # None
SeededCard == c.part = "card" /\ c.initialData # None

\* the first configuration cycle of a seeded instance sends no request and
\* leaves it Ready with the adapted seed; for the hook, only when the adapter
\* accepts the seed if proviso, and Failed with the adapter's message otherwise
SeedStep(proviso) ==
    /\ SeededHook =>
          \A t \in 1..MaxClock : (h.mounted = "new" /\ HookMount(t)) =>
              /\ h'.reqs = EmptyBag
              /\ IF proviso /\ ~processData(h.initialData).ok
                 THEN Failed(h', processData(h.initialData).message)
                 ELSE Ready(h', Adapted(h.initialData))
    /\ SeededCard =>
          ((c.mounted = "new" /\ CardMount) => c'.reqs = EmptyBag /\ Ready(c', c.initialData))

\* a refetch of a seeded instance sends one request, to the endpoint
RefetchStep ==
    /\ SeededHook => (refetch => Sent(h, h') = 1 /\ h'.sentTo = h.apiUrl)
    /\ SeededCard => (handleManualRefresh => Sent(c, c') = 1 /\ c'.sentTo = c.apiUrl)

\* the response to the refetch of a seeded instance, when no newer request was
\* sent meanwhile and the instance is mounted, replaces the state
ReplaceStep ==
    /\ SeededHook =>
          \A r \in InFlight(h), out \in Outcomes, t \in 1..MaxClock :
              (r.by = "refetch" /\ r.sup = "no" /\ h.mounted = "yes" /\ HookComplete(r, out, t))
                  => IF out.kind = "ok" /\ processData(out.body).ok
                     THEN Ready(h', Adapted(out.body)) /\ h'.lastUpdated = t
                     ELSE IF out.kind = "ok"
                          THEN Failed(h', processData(out.body).message)
                          ELSE Failed(h', FailureMessage(h, out))
    /\ SeededCard =>
          \A r \in InFlight(c), out \in Outcomes, t \in 1..MaxClock :
              (r.by = "refetch" /\ r.sup = "no" /\ c.mounted = "yes" /\ CardComplete(r, out, t))
                  => IF out.kind = "ok"
                     THEN Ready(c', out.body) /\ c'.lastUpdated = t
                     ELSE Failed(c', OneOffFailureMessage(out))

\* C3 (amended): a seeded instance's first cycle sends no request and leaves it
\* Ready with the adapted seed, or Failed with the adapter's message when the
\* adapter raises on the seed; a later refetch sends one request to the
\* endpoint, and the response to it replaces the seeded state
C3_SeededThenRefetch ==
    [][SeedStep(TRUE) /\ RefetchStep /\ ReplaceStep]_vars

\* C3 as stated: a seeded instance reaches Ready with the adapted seed without a
\* request, whatever the seed
C3_SeededAlwaysReady ==
    [][SeedStep(FALSE) /\ RefetchStep /\ ReplaceStep]_vars

\* witness of C3: a hook seeded with p1 was mounted without a request and shows
\* the adapted response p2 of a refetch sent to its endpoint
C3_Witness ==
    /\ SeededHook
    /\ h.initialData = "p1"
    /\ h.seedUses = 1
    /\ h.mounted = "yes"
    /\ h.sentTo = h.apiUrl
    /\ h.reqs = EmptyBag
    /\ Ready(h, Adapted("p2"))

\* C4: the seed is used at most once, and every change of the endpoint or the
\* auth key of a mounted instance that has an endpoint and no request pending
\* (its first configuration cycle is over) sends a request
C4_SeedOnceThenRealFetch ==
    [][/\ h.part = "hook" =>
              /\ h'.seedUses <= 1
              /\ \A u \in Urls, t \in 1..MaxClock :
                     (HookChangeUrl(u, t) /\ h.reqs = EmptyBag) => Sent(h, h') = 1
              /\ \A k \in ApiKeys :
                     (HookChangeKey(k) /\ h.reqs = EmptyBag /\ h.apiUrl # "") => Sent(h, h') = 1
       /\ c.part = "card" =>
              /\ \A u \in Urls :
                     (CardChangeUrl(u) /\ c.reqs = EmptyBag) => Sent(c, c') = 1
              /\ \A k \in ApiKeys :
                     (CardChangeKey(k) /\ c.reqs = EmptyBag /\ c.apiUrl # "") => Sent(c, c') = 1]_vars

\* C5: after teardown every request in flight carries an aborted signal, and
\* nothing changes the observable state of the instance any more
C5_TeardownCancelsInFlight ==
    [][/\ (h.part = "hook" /\ h'.mounted = "no") =>
              /\ \A r \in InFlight(h') : r.aborted
              /\ h.mounted = "no" => HookView(h') = HookView(h)
       /\ (c.part = "card" /\ c'.mounted = "no") =>
              /\ \A r \in InFlight(c') : r.aborted
              /\ c.mounted = "no" => CardView(c') = CardView(c)]_vars

\* a response that makes the instance Failed
Failure(out) == out.kind \in {"status", "network"}

\* C6: the completion of a fetch with a failure sends no request
C6_NoFetchAfterFailure ==
    [][/\ \A r \in InFlight(h), out \in Outcomes, t \in 1..MaxClock :
              (HookComplete(r, out, t) /\ Failure(out)) => Sent(h, h') = -1
       /\ \A r \in InFlight(c), out \in Outcomes, t \in 1..MaxClock :
              (CardComplete(r, out, t) /\ Failure(out)) => Sent(c, c') = -1]_vars

\* the messages that stand for the three failure reasons of a non-2xx response
RateLimited == {"Rate Limit Exceeded", "Rate limit exceeded. Try again later."}
Unauthorized == {"Invalid API key or unauthorized", "Invalid API key or unauthorized."}
HttpError(status) == {"API Error: " \o ToString(status), "HTTP " \o ToString(status)}

\* the failure reason that the claim gives a status
ReasonOf(status) ==
    IF status = 429 THEN RateLimited
    ELSE IF status \in {401, 403} THEN Unauthorized ELSE HttpError(status)

StatusOutcomes == {out \in Outcomes : out.kind = "status"}

\* C16: in every fetch path of a mounted instance a 429 response leaves the
\* rate-limit failure in the error state, a 401 or 403 response the
\* unauthorized failure, and another non-2xx response the status failure with
\* its code.
C16_StatusMapsToReason ==
    [][/\ \A r \in InFlight(h), out \in StatusOutcomes, t \in 1..MaxClock :
              (h.mounted = "yes" /\ HookComplete(r, out, t))
                  => h'.error \in ReasonOf(out.status)
       /\ \A r \in InFlight(c), out \in StatusOutcomes, t \in 1..MaxClock :
              (c.mounted = "yes" /\ CardComplete(r, out, t))
                  => c'.error \in ReasonOf(out.status)]_vars

\* the payloads on which the adapter raises
Rejected(raw) == raw # None /\ ~processData(raw).ok

\* C17: when the adapter raises on a fetched payload or on the seed, the
\* mounted instance is Failed with the adapter's message and not loading.
C17_AdapterFailureIsFailed ==
    [][h.part = "hook" =>
          /\ \A r \in InFlight(h), out \in Outcomes, t \in 1..MaxClock :
                 (/\ out.kind = "ok"
                  /\ Rejected(out.body)
                  /\ h.mounted = "yes"
                  /\ HookComplete(r, out, t))
                     => Failed(h', processData(out.body).message)
          /\ (Rejected(h.initialData) /\ ~h.hasFetchedOnce) =>
                 /\ \A t \in 1..MaxClock :
                        (h.mounted = "new" /\ HookMount(t))
                            => Failed(h', processData(h.initialData).message)
                 /\ \A u \in Urls, t \in 1..MaxClock :
                        (h.mounted = "yes" /\ HookChangeUrl(u, t))
                            => Failed(h', processData(h.initialData).message)]_vars

\* witness of C17: an instance without a seed is Failed with the adapter's
\* message, no request pending
C17_Witness ==
    /\ h.part = "hook"
    /\ h.mounted = "yes"
    /\ h.initialData = None
    /\ h.reqs = EmptyBag
    /\ Failed(h, processData("bad").message)

\* the number of requests in flight whose signal is not aborted
NotCancelled(s) ==
    LET live == {r \in InFlight(s) : ~r.aborted}
    IN  BagCardinality([r \in live |-> s.reqs[r]])

\* C18: an instance has at most one request in flight that is not cancelled.
C18_SingleLiveRequest ==
    /\ NotCancelled(h) <= 1
    /\ NotCancelled(c) <= 1

\* the newest request of instance s is in flight
NewestPending(s) == \E q \in InFlight(s) : q.sup = "no"

\* C19: the completion of a superseded fetch (its rejection when it was
\* cancelled) leaves loading true while the newer fetch is in flight.
C19_LoadingUntilNewerCompletes ==
    [][/\ \A r \in InFlight(h), out \in Deliveries, t \in 1..MaxClock :
              (/\ r.sup # "no"
               /\ Honoured(r, out)
               /\ h.mounted = "yes"
               /\ h.loading
               /\ NewestPending(h)
               /\ HookComplete(r, out, t))
                  => h'.loading
       /\ \A r \in InFlight(c), out \in Deliveries, t \in 1..MaxClock :
              (/\ r.sup # "no"
               /\ Honoured(r, out)
               /\ c.mounted = "yes"
               /\ c.loading
               /\ NewestPending(c)
               /\ CardComplete(r, out, t))
                  => c'.loading]_vars

\* C20: loading = true and a non-null error never hold together.
C20_LoadingExcludesError ==
    /\ h.part = "hook" => ~(h.loading /\ h.error # None)
    /\ c.part = "card" => ~(c.loading /\ c.error # None)

\* C21: a card instance has at most one interval timer running, the one its
\* last effect run set; after a change of the endpoint or the auth key only the
\* timer of the new run is running, and none after the instance is torn down.
C21_SingleTimer ==
    c.part = "card" =>
        /\ c.timers <= 1
        /\ c.timers = (IF c.interval THEN 1 ELSE 0)
        /\ c.mounted = "no" => c.timers = 0

\* witness of C21: a card with a refresh interval was given another endpoint and
\* another auth key and has one timer running
C21_Witness ==
    /\ c.part = "card"
    /\ c.mounted = "yes"
    /\ c.apiUrl = "u2"
    /\ c.apiKey = "k2"
    /\ c.timers = 1

\* C22: every tick of the timer of a mounted card that has an endpoint sends one
\* request to the endpoint, seeded or not.
C22_TickFetches ==
    [][(c.part = "card" /\ c.apiUrl # "" /\ CardTimerTick)
           => Sent(c, c') = 1 /\ c'.sentTo = c.apiUrl]_vars

\* C23: no step of the fetch lifecycle of an instance (mount, completion with a
\* success, a failure or the rejection of a cancelled request, refetch, timer
\* tick, unmount) changes the collection, its stored record, or the state of
\* the other instance.
C23_FetchStepsFrame ==
    [][/\ UNCHANGED <<widgets, persisted>>
       /\ h' # h => c' = c]_vars

\* witness of C23: on a dashboard of two stored widgets, one instance is Failed
\* with a transport failure and the other shows fetched data
C23_Witness ==
    /\ Len(widgets) = 2
    /\ persisted = Persist(widgets)
    /\ h.part = "hook" /\ c.part = "card"
    /\ h.mounted = "yes" /\ c.mounted = "yes"
    /\ Failed(h, "Failed to fetch")
    /\ Ready(c, "p1")

\* C24: updateConfig(id, partialConfig) leaves the id of every entry that had
\* that id as it was, whatever partialConfig carries, and after a reorder the
\* collection holds the same entries, ids included.
C24_IdNeverChanges ==
    LET l == storeLog[1]
    IN  /\ l.op = "update" =>
              /\ Len(widgets) = Len(l.before)
              /\ \A i \in 1..Len(l.before) : widgets[i].id = l.before[i].id
        /\ l.op = "move" =>
              /\ Len(widgets) = Len(l.before)
              /\ \A i \in 1..Len(l.before) : \E j \in 1..Len(widgets) : widgets[j] = l.before[i]

\* C25: add(config) puts one entry at the end of the collection that has the
\* fields of config and the assigned id, an id in config being overridden, and
\* leaves the entries before it as they were.
C25_AddAppendsWithAssignedId ==
    LET l == storeLog[1]
    IN  l.op = "add" =>
            /\ Len(widgets) = Len(l.before) + 1
            /\ SubSeq(widgets, 1, Len(l.before)) = l.before
            /\ LET e == widgets[Len(widgets)]
               IN  /\ DOMAIN e = DOMAIN l.arg \cup {"id"}
                   /\ e.id = l.assigned
                   /\ \A k \in DOMAIN l.arg \ {"id"} : e[k] = l.arg[k]

\* witness of C25: add was called on a collection of 2 entries with a config that
\* carries an id other than the one assigned
C25_Witness ==
    /\ storeLog[1].op = "add"
    /\ Len(storeLog[1].before) = 2
    /\ "id" \in DOMAIN storeLog[1].arg
    /\ storeLog[1].arg.id # storeLog[1].assigned

\* C26: add(config) returns the id it assigned.
C26_AddReturnsId ==
    storeLog[1].op = "add" => storeLog[1].returned = storeLog[1].assigned

\* the entry after partialConfig was merged into entry e
Merged(e, after, partialConfig) ==
    /\ DOMAIN after = DOMAIN e \cup DOMAIN partialConfig
    /\ \A k \in DOMAIN partialConfig : after[k] = partialConfig[k]
    /\ \A k \in DOMAIN e \ DOMAIN partialConfig : after[k] = e[k]

\* C27: updateConfig(id, partialConfig) with id present replaces the fields of
\* partialConfig on one entry that has the id, at its position, keeps the
\* other fields of that entry, and leaves all other entries as they were.
C27_UpdateMergesOneEntry ==
    LET l == storeLog[1]
    IN  (l.op = "update" /\ FindIndex(l.before, l.id) # 0) =>
            /\ Len(widgets) = Len(l.before)
            /\ \E i \in 1..Len(l.before) :
                   /\ l.before[i].id = l.id
                   /\ Merged(l.before[i], widgets[i], l.arg)
                   /\ \A j \in 1..Len(l.before) : j # i => widgets[j] = l.before[j]

\* C28: every entry of the collection has a fields list with at least one path.
C28_EveryWidgetHasFields ==
    \A i \in 1..Len(widgets) :
        "fields" \in DOMAIN widgets[i] /\ Len(widgets[i].fields) >= 1

\* the value at the first field path of the last processChartData call
ResolvedTarget ==
    getFieldValue(root, IF Len(chart.fields) > 0 THEN chart.fields[1] ELSE <<>>)

\* the one-level unwrap: the sequence under values, or else under data, of the
\* first item of a sequence when that item is a mapping
Unwrapped(v) ==
    IF v.t = "arr" /\ Len(v.a) > 0 /\ v.a[1].t = "obj"
    THEN IF Prop(v.a[1], KeyValues).t = "arr" THEN Prop(v.a[1], KeyValues)
         ELSE IF Prop(v.a[1], KeyData).t = "arr" THEN Prop(v.a[1], KeyData)
              ELSE v
    ELSE v

PtLabel(i) == Str(<<"P", "t", " ">> \o NumberToString(i))

Min(a, b) == IF a < b THEN a ELSE b

C30_FailsOnlyWithoutSeries ==
    chart.done =>
        /\ chart.result = ChartDataError <=> Unwrapped(ResolvedTarget).t # "arr"
        /\ Unwrapped(ResolvedTarget).t = "arr" => chart.result.t = "chart"

\* the positions of the field paths of the last adapter call that resolve to a sequence
SequenceAt ==
    {i \in 1..Len(shaped.fields) : getFieldValue(root, shaped.fields[i]).t = "arr"}

\* C31: processTableData returns the value of the first field path that resolves
\* to a sequence, whatever the later paths resolve to, and the empty sequence
\* when no path resolves to a sequence (no path at all included) or the first
\* sequence found is empty.
C31_FirstSequenceVerbatim ==
    shaped.fn = "table" =>
        IF SequenceAt = {}
        THEN shaped.result = Arr(<<>>)
        ELSE LET first == CHOOSE i \in SequenceAt : \A j \in SequenceAt : i <= j
             IN  shaped.result = getFieldValue(root, shaped.fields[first])

\* witness of C31: two paths resolve to different sequences, the first of them to
\* an empty one, and the empty sequence was returned
C31_Witness ==
    /\ shaped.fn = "table"
    /\ SequenceAt = {1, 2}
    /\ getFieldValue(root, shaped.fields[1]) = Arr(<<>>)
    /\ getFieldValue(root, shaped.fields[2]) # Arr(<<>>)
    /\ shaped.result = Arr(<<>>)

\* C32: processCardData returns a mapping with one entry for each final segment
\* of the field paths, no name twice, the value of a name being what the last
\* path with that final segment resolves to.
C32_LastWriteWins ==
    shaped.fn = "card" =>
        LET o == shaped.result.o
            fs == shaped.fields
        IN  /\ shaped.result.t = "obj"
            /\ {o[i].k : i \in 1..Len(o)} = {FieldName(fs[i]) : i \in 1..Len(fs)}
            /\ \A i, j \in 1..Len(o) : o[i].k = o[j].k => i = j
            /\ \A i \in 1..Len(o) :
                   LET last == CHOOSE m \in 1..Len(fs) :
                                   /\ FieldName(fs[m]) = o[i].k
                                   /\ \A n \in 1..Len(fs) : FieldName(fs[n]) = o[i].k => n <= m
                   IN  o[i].v = getFieldValue(root, fs[last])

\* witness of C32: two paths with the same final segment resolve to different
\* values and the mapping holds the value of the second
C32_Witness ==
    /\ shaped.fn = "card"
    /\ Len(shaped.fields) = 2
    /\ shaped.fields[1] # shaped.fields[2]
    /\ FieldName(shaped.fields[1]) = FieldName(shaped.fields[2])
    /\ getFieldValue(root, shaped.fields[1]) # getFieldValue(root, shaped.fields[2])
    /\ shaped.result = Obj(<<Entry(FieldName(shaped.fields[2]),
                                   getFieldValue(root, shaped.fields[2]))>>)

\* the paths returned by the last extractFields call, whatever its bound
Returned == IF discovered = <<>> THEN <<>> ELSE discovered[1]

\* C33: extractFields returns no path twice, for every document, one that holds
\* both a key "a.b" and a chain of keys a, b included.
C33_NoPathTwice ==
    \A i, j \in 1..Len(Returned) : Returned[i] = Returned[j] => i = j

\* the traversal of parts from v reaches a value that is no mapping (a sequence,
\* null or a primitive) with a segment still to look up in it
RECURSIVE IndexesNonMapping(_, _)
IndexesNonMapping(v, parts) ==
    /\ parts # <<>>
    /\ v.t # "undefined"
    /\ \/ v.t # "obj"
       \/ IndexesNonMapping(Prop(v, Head(parts)), Tail(parts))

\* C34: getFieldValue returns undefined whenever the traversal of the segments
\* has to look a segment up in a sequence, in null or in a primitive, the
\* segment "0" looked up in a sequence included.
C34_NotFoundThroughNonMapping ==
    (/\ probe.done
     /\ probe.path # <<>>
     /\ Truthy(root)
     /\ Prop(root, StripDataPrefix(probe.path)) = Undefined
     /\ IndexesNonMapping(root, Split(StripDataPrefix(probe.path))))
        => probe.result = Undefined

\* C40: every path returned by extractFields is a non-empty string whose
\* segments are non-empty, for every document, a sequence included.
C40_PathsAreNonEmpty ==
    \A i \in 1..Len(Returned) :
        /\ Returned[i] # <<>>
        /\ \A n \in 1..Len(Split(Returned[i])) : Split(Returned[i])[n] # <<>>

\* C38: whatever the page operations and the changes of data, the current page
\* is between 1 and max(1, totalPages), a page holds at most itemsPerPage rows,
\* and the page shown is not empty when data is not empty.
C38_PageInRange ==
    pg.part = "table" =>
        /\ 1 <= pg.currentPage
        /\ pg.currentPage <= Larger(1, totalPages(pg))
        /\ Len(paginatedData(pg)) <= itemsPerPage
        /\ TotalItems(pg.data) > 0 => paginatedData(pg) # <<>>

\* the render of StockTableWidget reads data.length: the content takes the
\* branches after 'error ?' and the footer evaluates '!error && data.length > 0'
TableReadsLength ==
    /\ h.part = "hook"
    /\ h.widget = "hook"
    /\ h.mounted \in {"new", "yes"}
    /\ h.error = None

\* C39: in every state in which the table renders with error unset, the first
\* render included, the data returned by useWidgetData is a sequence and not
\* null, so that reading data.length cannot fail.
C39_DataIsSequenceWhenRead ==
    TableReadsLength => h.data # None

\* the instance shows data (Ready) or an error (Failed) and is not loading
Settled(s) ==
    /\ ~s.loading
    /\ s.data # None \/ s.error # None

\* C35: every request in flight being delivered, every instance of the hook or
\* of the chart widget eventually leaves its initial loading state and shows
\* data or an error (or is unmounted before), an instance with neither endpoint
\* nor seed and an instance whose only request was aborted included.
C35_EventuallySettled ==
    (h.part = "hook") ~> (h.part = "hook" /\ (h.mounted = "no" \/ Settled(h)))

\* a failed fetch of the effect's fetchData that the mounted card takes notice of
CountedFailure(r, out) ==
    /\ r.kind = "fetchData"
    /\ ~r.aborted
    /\ out.kind \in {"status", "network"}
    /\ c.mounted = "yes"
    /\ c.isMounted

\* the card has given up: the max-retries error is shown, no refresh timer is
\* running and no fetch of fetchData is pending
GaveUp(s) ==
    /\ s.error = "Max retries reached. Please refresh manually."
    /\ s.timers = 0
    /\ \A r \in BagToSet(s.reqs) : r.kind = "fetchData" => r.aborted

\* C36: a failed fetch of the card counts towards maxRetries, the retry counter
\* being reset only by a success, a manual refresh or a change of endpoint or
\* key; with the third consecutive failure the card gives up: no automatic
\* fetch is pending, no refresh timer is running and the max-retries error is
\* shown.
C36_GivesUpAfterMaxRetries ==
    [][\A r \in InFlight(c), out \in Outcomes, t \in 1..MaxClock :
           (CountedFailure(r, out) /\ CardComplete(r, out, t))
               => /\ c'.retryCount = c.retryCount + 1
                  /\ c'.retryCount >= maxRetries => GaveUp(c')]_vars

====
